---- MODULE Spec2Model ----
(***************************************************************************)
(* Batch credit scoring of wallets (credit_score_generator.py).            *)
(*                                                                         *)
(* Numbers.  The program computes in 64-bit floats.  Here every number is  *)
(* an exact fraction <<n, d>> in lowest terms with d > 0.  The pair        *)
(* <<0, 0>> stands for NaN and <<1, 0>>, <<-1, 0>> for +inf, -inf.         *)
(* A standard deviation is carried as its square (the variance): squaring  *)
(* is order preserving on non-negative numbers and keeps 0 and NaN, so     *)
(* "std < 60" is "variance < 3600" and "std = 0" is "variance = 0".        *)
(***************************************************************************)
EXTENDS Integers, Sequences, FiniteSets, TLC

\* Largest number of events of one wallet in the input file.
MaxEvents == 15

----------------------------------------------------------------------------
(* Exact arithmetic *)

Abs(x) == IF x < 0 THEN -x ELSE x

RECURSIVE GCD(_, _)
GCD(a, b) == IF b = 0 THEN a ELSE GCD(b, a % b)

Rat(n, d) ==
    IF d = 0 THEN <<(IF n > 0 THEN 1 ELSE IF n < 0 THEN -1 ELSE 0), 0>>
    ELSE LET g == GCD(Abs(n), Abs(d))
             s == IF d < 0 THEN -1 ELSE 1
         IN  <<s * (n \div g), s * (d \div g)>>

NaN == <<0, 0>>
Zero == <<0, 1>>
One == <<1, 1>>
Num(k) == <<k, 1>>

IsFinite(x) == x[2] # 0

Add(a, b) ==
    IF ~IsFinite(a) \/ ~IsFinite(b) THEN
        (IF a = NaN \/ b = NaN \/ (~IsFinite(a) /\ ~IsFinite(b) /\ a # b)
         THEN NaN ELSE IF IsFinite(a) THEN b ELSE a)
    ELSE LET l == (a[2] \div GCD(a[2], b[2])) * b[2]
         IN  Rat(a[1] * (l \div a[2]) + b[1] * (l \div b[2]), l)

Times(k, a) == Rat(k * a[1], a[2])

\* a < b as floats compare: any comparison with NaN is false.
Less(a, b) ==
    /\ a # NaN /\ b # NaN
    /\ IF IsFinite(a) /\ IsFinite(b) THEN a[1] * b[2] < b[1] * a[2]
       ELSE IF IsFinite(a) THEN b[1] > 0
       ELSE IF IsFinite(b) THEN a[1] < 0
       ELSE a[1] < b[1]

\* numpy / pandas clip(lo, hi); NaN stays NaN.
Clip(x, lo, hi) == IF Less(x, lo) THEN lo ELSE IF Less(hi, x) THEN hi ELSE x

RECURSIVE SumSeq(_)
SumSeq(s) == IF s = <<>> THEN 0 ELSE Head(s) + SumSeq(Tail(s))

RECURSIVE SumRat(_)
SumRat(s) == IF s = <<>> THEN Zero ELSE Add(Head(s), SumRat(Tail(s)))

\* mean of a non-empty integer sequence
Mean(s) == Rat(SumSeq(s), Len(s))

\* Variance with ddof degrees of freedom removed:
\* sum((x - mean)^2) / (len - ddof).  With len = ddof it is 0/0, NaN.
Variance(s, ddof) ==
    LET k == Len(s)
        t == SumSeq(s)
    IN  Rat(SumSeq([i \in 1..k |-> (k * s[i] - t) * (k * s[i] - t)]),
            k * k * (k - ddof))

RECURSIVE Insert(_, _)
Insert(x, s) ==
    IF s = <<>> THEN <<x>>
    ELSE IF x <= Head(s) THEN <<x>> \o s
    ELSE <<Head(s)>> \o Insert(x, Tail(s))

\* np.sort
RECURSIVE Sort(_)
Sort(s) == IF s = <<>> THEN <<>> ELSE Insert(Head(s), Sort(Tail(s)))

\* np.diff
Diff(s) == [i \in 1..(Len(s) - 1) |-> s[i + 1] - s[i]]

SeqMax(s) == CHOOSE x \in {s[i] : i \in DOMAIN s} : \A j \in DOMAIN s : s[j] <= x
SeqMin(s) == CHOOSE x \in {s[i] : i \in DOMAIN s} : \A j \in DOMAIN s : x <= s[j]

----------------------------------------------------------------------------
(* CONFIG *)

score_min == 0
score_max == 1000
liquidation_penalty == -200
high_frequency_penalty == -150
repayment_reward == 300
longevity_reward == 2
deposit_bonus == 50
borrow_penalty == -30
bot_penalty == -100

----------------------------------------------------------------------------
(* The input file user_transactions.json *)

\* Wallet ids, in the order groupby('user') yields them (sorted keys).
Wallets == <<"0xa1", "0xb2">>

\* A JSON null (pandas NaN / None in an object column).
Missing == "<null>"

\* Action labels as they appear in the file: mixed case, a label the scorer
\* has no rule for, and no label at all.
RawActions ==
    {"deposit", "borrow", "Repay", "redeemunderlying", "LiquidationCall",
     "swap", Missing}

\* Labels of the first events of a wallet.
HeadActions == {"LiquidationCall", "deposit", "swap"}

\* How many first events carry the head label.
HeadCounts == {2}

\* Time patterns: <<kind, g>>.  "even": consecutive events g seconds apart.
\* "burst": all events at the same second but one, g * (n - 1) seconds later.
\* Both have a mean gap of g seconds.
RapidSpacings == {<<"even", 20>>, <<"burst", 20>>}
NormalSpacings == {<<"burst", 60>>, <<"even", 86400>>, <<"even", 864000>>}

\* Epoch second of a wallet's first event (05:58:20 UTC).
FirstSecond == 6 * 3600 - 100

\* The amount field of an event: a decimal string, or nothing parseable.
RawAmount(a) ==
    CASE a = "swap" -> "n/a"
      [] a = Missing -> Missing
      [] a = "deposit" -> "250"
      [] OTHER -> "100"

RawSymbol(a) == IF a \in {"deposit", "Repay"} THEN "USDC" ELSE "Dai"

\* The n events of wallet w, newest first (the file is not chronological).
WalletEvents(w, n, sp, k, a, b) ==
    [i \in 1..n |->
        LET lab == IF i <= k THEN a ELSE b
        IN  [userWallet |-> w,
             timestamp |-> IF sp[1] = "even"
                           THEN FirstSecond + (n - i) * sp[2]
                           ELSE FirstSecond + (IF i = 1 THEN (n - 1) * sp[2] ELSE 0),
             action |-> lab,
             actionData_assetSymbol |-> RawSymbol(lab),
             actionData_amount |-> RawAmount(lab)]]

Profiles(w, spacings) ==
    {WalletEvents(w, n, sp, k, a, b) :
        n \in 1..MaxEvents, sp \in spacings, k \in HeadCounts,
        a \in HeadActions, b \in RawActions}

\* The same events (actions, assets, amounts) for wallet w at spacing sp.
Respaced(ev, w, sp) ==
    [i \in DOMAIN ev |->
        [ev[i] EXCEPT
            !.userWallet = w,
            !.timestamp = IF sp[1] = "even"
                          THEN FirstSecond + (Len(ev) - i) * sp[2]
                          ELSE FirstSecond + (IF i = 1 THEN (Len(ev) - 1) * sp[2] ELSE 0)]]

\* A wallet with a single borrow.
Lone(w) == WalletEvents(w, 1, <<"even", 20>>, 1, "borrow", "borrow")

\* Spacings of the second wallet of a pair of wallets with the same events.
TwinSpacings == {<<"burst", 60>>, <<"even", 86400>>}

\* The files: no event (an empty list), one wallet, a wallet followed by a single-event
\* wallet, or a rapid wallet preceded by a wallet with the same events at a
\* normal spacing.
InputFiles ==
    {<<>>}
    \cup Profiles(Wallets[1], RapidSpacings \cup NormalSpacings)
    \cup {p \o Lone(Wallets[2]) : p \in Profiles(Wallets[1], {<<"even", 86400>>})}
    \cup UNION {{Respaced(p, Wallets[2], sp) \o p : sp \in TwinSpacings} :
                    p \in Profiles(Wallets[1], RapidSpacings)}

----------------------------------------------------------------------------
(* load_data *)

\* str.lower(); a missing label stays missing.
Lower(s) ==
    CASE s = "Repay" -> "repay"
      [] s = "LiquidationCall" -> "liquidationcall"
      [] s = "USDC" -> "usdc"
      [] s = "Dai" -> "dai"
      [] OTHER -> s

\* pd.to_numeric(errors='coerce').fillna(0)
ToNumeric(s) ==
    CASE s = "100" -> 100
      [] s = "250" -> 250
      [] OTHER -> 0

load_data(data) ==
    [i \in DOMAIN data |->
        [user |-> data[i].userWallet,
         timestamp |-> data[i].timestamp,
         value |-> ToNumeric(data[i].actionData_amount),
         action |-> Lower(data[i].action),
         asset |-> Lower(data[i].actionData_assetSymbol)]]

----------------------------------------------------------------------------
(* calculate_wallet_features *)

SECONDS_PER_DAY == 86400

\* Series.dt.hour
Hour(ts) == (ts \div 3600) % 24

\* value_counts normalised over all rows, labelled or not
ValueCounts_AllRows(txs) ==
    LET labelled == {i \in DOMAIN txs : txs[i].action # Missing}
        labels == {txs[i].action : i \in labelled}
    IN  [l \in labels |->
            Rat(Cardinality({i \in labelled : txs[i].action = l}), Len(txs))]

\* value_counts(normalize=True).to_dict(): the share of each label among the
\* labelled rows; rows without a label are not counted.
ValueCounts(txs) ==
    LET labelled == {i \in DOMAIN txs : txs[i].action # Missing}
        labels == {txs[i].action : i \in labelled}
    IN  [l \in labels |->
            Rat(Cardinality({i \in labelled : txs[i].action = l}),
                Cardinality(labelled))]

\* dict.get(key, default)
Get(d, key, default) == IF key \in DOMAIN d THEN d[key] ELSE default

\* line 71, with the mean compared inclusively
BotLikelihood_Inclusive(time_diffs) ==
    IF ~Less(Num(60), Mean(time_diffs)) /\ Len(time_diffs) > 10 THEN One ELSE Zero

\* line 71
BotLikelihood(time_diffs) ==
    IF Less(Mean(time_diffs), Num(60)) /\ Len(time_diffs) > 10 THEN One ELSE Zero

calculate_wallet_features(wallet_txs) ==
    LET n == Len(wallet_txs)
        timestamps == [i \in 1..n |-> wallet_txs[i].timestamp]
        time_diffs == IF n > 1 THEN Diff(Sort(timestamps)) ELSE <<0>>
        hours == [i \in 1..n |-> Hour(wallet_txs[i].timestamp)]
        values == [i \in 1..n |-> wallet_txs[i].value]
        action_counts == ValueCounts(wallet_txs)
    IN  [tx_count |-> Num(n),
         unique_assets |-> Num(Cardinality({wallet_txs[i].asset : i \in 1..n})),
         days_active |-> IF n > 1
                         THEN Rat(SeqMax(timestamps) - SeqMin(timestamps), SECONDS_PER_DAY)
                         ELSE Zero,
         tx_frequency_std |-> IF Len(time_diffs) > 1 THEN Variance(time_diffs, 0) ELSE Zero,
         deposit_ratio |-> Get(action_counts, "deposit", Zero),
         borrow_ratio |-> Get(action_counts, "borrow", Zero),
         repay_ratio |-> Get(action_counts, "repay", Zero),
         redeem_ratio |-> Get(action_counts, "redeemunderlying", Zero),
         liquidation_count |-> Get(action_counts, "liquidationcall", Zero),
         avg_tx_value |-> Mean(values),
         value_std |-> Variance(values, 1),
         total_value |-> Num(SumSeq(values)),
         night_tx_ratio |-> Rat(Cardinality({i \in 1..n : hours[i] < 6 \/ hours[i] > 22}), n),
         workhour_tx_ratio |-> Rat(Cardinality({i \in 1..n : hours[i] >= 9 /\ hours[i] <= 17}), n),
         bot_likelihood |-> BotLikelihood(time_diffs)]

----------------------------------------------------------------------------
(* DataFrame helpers *)

\* The distinct users of df in the order groupby('user') visits them.
GroupKeys(frame) ==
    SelectSeq(Wallets, LAMBDA w : \E i \in DOMAIN frame : frame[i].user = w)

\* The rows of one group, in file order.
Group(frame, w) == SelectSeq(frame, LAMBDA r : r.user = w)

\* [col for col in wallet_features.columns
\*      if col not in ['user', 'base_score', 'credit_score']]
feature_cols ==
    {"tx_count", "unique_assets", "days_active", "tx_frequency_std",
     "deposit_ratio", "borrow_ratio", "repay_ratio", "redeem_ratio",
     "liquidation_count", "avg_tx_value", "value_std", "total_value",
     "night_tx_ratio", "workhour_tx_ratio", "bot_likelihood"}

\* wallet_features[feature_cols]
FeatureMatrix(rows) == [i \in DOMAIN rows |-> [c \in feature_cols |-> rows[i][c]]]

\* X.replace([np.inf, -np.inf], np.nan).fillna(0)
Sanitize(M) ==
    [i \in DOMAIN M |-> [c \in DOMAIN M[i] |-> IF IsFinite(M[i][c]) THEN M[i][c] ELSE Zero]]

AllFinite(M) == \A i \in DOMAIN M : \A c \in DOMAIN M[i] : IsFinite(M[i][c])

\* RobustScaler.transform.  The scaler's arithmetic (column median and
\* inter-quartile range) is not carried: a scaled cell keeps only whether it
\* is a number (Zero) or NaN.  RobustScaler disregards NaN when fitting and
\* passes NaN through transform.
ScalerTransform(M) ==
    [i \in DOMAIN M |-> [c \in DOMAIN M[i] |-> IF IsFinite(M[i][c]) THEN Zero ELSE NaN]]

----------------------------------------------------------------------------
(* The heuristic base score, lines 113-123 *)

RuleSum(f) ==
    SumRat(<<Num(500),
             Times(repayment_reward, f.repay_ratio),
             Times(longevity_reward, f.days_active),
             Times(deposit_bonus, f.deposit_ratio),
             Times(borrow_penalty, f.borrow_ratio),
             Times(liquidation_penalty, f.liquidation_count),
             Times(high_frequency_penalty,
                   IF Less(f.tx_frequency_std, Num(60 * 60)) THEN One ELSE Zero),
             Times(bot_penalty, f.bot_likelihood)>>)

\* the base score clipped from below only
BaseScoreOf_NoUpper(f) ==
    IF Less(RuleSum(f), Num(300)) THEN Num(300) ELSE RuleSum(f)

BaseScoreOf(f) == Clip(RuleSum(f), Num(300), Num(700))

----------------------------------------------------------------------------
(* generate_scores and the tail of main *)

\* What the fitted regressor may return for one row.
Predictions == {Rat(-101, 2), Rat(6497, 10), Rat(12003, 10)}

\* the scores clipped from below only
ClipScore_LowerOnly(p) == IF Less(p, Num(score_min)) THEN Num(score_min) ELSE p

\* np.clip(scores, *CONFIG['score_range'])
ClipScore(p) == Clip(p, Num(score_min), Num(score_max))

\* ndarray.astype(int): the fraction is dropped (towards zero).
AsInt(x) == IF x[1] >= 0 THEN x[1] \div x[2] ELSE -((-x[1]) \div x[2])

----------------------------------------------------------------------------
VARIABLES
    pc,               \* where main is
    error,            \* the exception that ended the run, or "none"
    data,             \* content of user_transactions.json
    df,               \* the frame load_data returns
    features_list,    \* main's list of per-wallet feature dicts
    wallet_features,  \* the DataFrame built from features_list
    base_score,       \* column base_score (<<>> while absent)
    scaler,           \* "unfitted" or "fitted"
    model,            \* "unfitted" or "fitted"
    scaled_features,  \* generate_scores' scaled matrix
    scaler_X,         \* the matrix last handed to the scaler
    model_X,          \* the matrix last handed to the regressor
    pred,             \* model.predict's return value
    scores,           \* generate_scores' first return value
    credit_score,     \* column credit_score (<<>> while absent)
    csv,              \* rows of wallet_scores.csv (<<>> while not written)
    csv_written,      \* wallet_scores.csv exists
    pkl               \* the artifact files that exist

vars ==
    <<pc, error, data, df, features_list, wallet_features, base_score, scaler,
      model, scaled_features, scaler_X, model_X, pred, scores, credit_score,
      csv, csv_written, pkl>>

Init ==
    /\ pc = "start"
    /\ error = "none"
    /\ data \in InputFiles
    /\ df = <<>>
    /\ features_list = <<>>
    /\ wallet_features = <<>>
    /\ base_score = <<>>
    /\ scaler = "unfitted"
    /\ model = "unfitted"
    /\ scaled_features = <<>>
    /\ scaler_X = <<>>
    /\ model_X = <<>>
    /\ pred = <<>>
    /\ scores = <<>>
    /\ credit_score = <<>>
    /\ csv = <<>>
    /\ csv_written = FALSE
    /\ pkl = {}

\* line 102; json_normalize of an empty list gives a frame without columns,
\* and df['timestamp'] (line 37) raises KeyError.
LoadData ==
    /\ pc = "start"
    /\ IF data = <<>>
       THEN /\ pc' = "failed"
            /\ error' = "KeyError"
            /\ UNCHANGED df
       ELSE /\ pc' = "grouping"
            /\ df' = load_data(data)
            /\ UNCHANGED error
    /\ UNCHANGED <<data, features_list, wallet_features, base_score, scaler,
                   model, scaled_features, scaler_X, model_X, pred, scores,
                   credit_score, csv, csv_written, pkl>>

\* one turn of the loop of lines 106-109
CalcFeatures ==
    /\ pc = "grouping"
    /\ Len(features_list) < Len(GroupKeys(df))
    /\ LET wallet == GroupKeys(df)[Len(features_list) + 1]
           features == calculate_wallet_features(Group(df, wallet))
       IN  features_list' =
               Append(features_list, [c \in feature_cols \cup {"user"} |->
                                         IF c = "user" THEN wallet ELSE features[c]])
    /\ UNCHANGED <<pc, error, data, df, wallet_features, base_score, scaler, model,
                   scaled_features, scaler_X, model_X, pred, scores, credit_score,
                   csv, csv_written, pkl>>

\* lines 111-123, once the loop has visited every group
BaseScore ==
    /\ pc = "grouping"
    /\ Len(features_list) = Len(GroupKeys(df))
    /\ wallet_features' = features_list
    /\ base_score' = [i \in DOMAIN features_list |-> BaseScoreOf(features_list[i])]
    /\ pc' = "base"
    /\ UNCHANGED <<error, data, df, features_list, scaler, model, scaled_features, scaler_X,
                   model_X, pred, scores, credit_score, csv, csv_written, pkl>>

\* generate_scores, lines 77-83
ScalerFit ==
    /\ pc = "base"
    /\ LET X == Sanitize(FeatureMatrix(wallet_features))
       IN  /\ scaler_X' = X
           /\ scaled_features' = ScalerTransform(X)
    /\ scaler' = "fitted"
    /\ pc' = "scaled"
    /\ UNCHANGED <<error, data, df, features_list, wallet_features, base_score, model,
                   model_X, pred, scores, credit_score, csv, csv_written, pkl>>

\* fit_transform raises (scikit-learn's ValueError, MemoryError, ...)
ScalerFails ==
    /\ pc = "base"
    /\ pc' = "failed"
    /\ error' = "ValueError"
    /\ UNCHANGED <<data, df, features_list, wallet_features, base_score, scaler, model,
                   scaled_features, scaler_X, model_X, pred, scores, credit_score,
                   csv, csv_written, pkl>>

\* lines 85-91
ModelFit ==
    /\ pc = "scaled"
    /\ model_X' = scaled_features
    /\ model' = "fitted"
    /\ pc' = "fitted"
    /\ UNCHANGED <<error, data, df, features_list, wallet_features, base_score, scaler,
                   scaled_features, scaler_X, pred, scores, credit_score, csv,
                   csv_written, pkl>>

\* model.fit raises (LightGBMError, ...)
ModelFails ==
    /\ pc = "scaled"
    /\ pc' = "failed"
    /\ error' = "LightGBMError"
    /\ UNCHANGED <<data, df, features_list, wallet_features, base_score, scaler, model,
                   scaled_features, scaler_X, model_X, pred, scores, credit_score,
                   csv, csv_written, pkl>>

\* lines 93-96: what the boosted trees return is not computed; any value of
\* Predictions may come back for any row.
PredictClip ==
    /\ pc = "fitted"
    /\ \E p \in [DOMAIN wallet_features -> Predictions] :
          /\ pred' = p
          /\ scores' = [i \in DOMAIN p |-> ClipScore(p[i])]
    /\ model_X' = scaled_features
    /\ pc' = "scored"
    /\ UNCHANGED <<error, data, df, features_list, wallet_features, base_score, scaler,
                   model, scaled_features, scaler_X, credit_score, csv, csv_written, pkl>>

\* line 127
AssignScores ==
    /\ pc = "scored"
    /\ credit_score' = [i \in DOMAIN scores |-> AsInt(scores[i])]
    /\ pc' = "assigned"
    /\ UNCHANGED <<error, data, df, features_list, wallet_features, base_score, scaler,
                   model, scaled_features, scaler_X, model_X, pred, scores, csv,
                   csv_written, pkl>>

\* the score table cut to its first row
ScoreTable_Head ==
    [i \in {1} |->
        [user |-> wallet_features[i].user, credit_score |-> credit_score[i]]]

\* wallet_features[['user', 'credit_score']]
ScoreTable ==
    [i \in DOMAIN wallet_features |->
        [user |-> wallet_features[i].user, credit_score |-> credit_score[i]]]

\* line 129
WriteScores ==
    /\ pc = "assigned"
    /\ csv' = ScoreTable
    /\ csv_written' = TRUE
    /\ pc' = "written"
    /\ UNCHANGED <<error, data, df, features_list, wallet_features, base_score, scaler,
                   model, scaled_features, scaler_X, model_X, pred, scores,
                   credit_score, pkl>>

\* lines 130-131
DumpArtifacts ==
    /\ pc = "written"
    /\ pkl' = {"credit_model.pkl", "scaler.pkl"}
    /\ pc' = "dumped"
    /\ UNCHANGED <<error, data, df, features_list, wallet_features, base_score, scaler,
                   model, scaled_features, scaler_X, model_X, pred, scores,
                   credit_score, csv, csv_written>>

\* lines 134-137: the attribution step scales the feature columns of
\* wallet_features as they are and evaluates the model on the result.
Explain ==
    /\ pc = "dumped"
    /\ scaler_X' = FeatureMatrix(wallet_features)
    /\ model_X' = ScalerTransform(FeatureMatrix(wallet_features))
    /\ pc' = "explained"
    /\ UNCHANGED <<error, data, df, features_list, wallet_features, base_score, scaler,
                   model, scaled_features, pred, scores, credit_score, csv,
                   csv_written, pkl>>

Next ==
    \/ LoadData
    \/ CalcFeatures
    \/ BaseScore
    \/ ScalerFit
    \/ ScalerFails
    \/ ModelFit
    \/ ModelFails
    \/ PredictClip
    \/ AssignScores
    \/ WriteScores
    \/ DumpArtifacts
    \/ Explain

Spec == Init /\ [][Next]_vars

----------------------------------------------------------------------------
(* Vocabulary of the properties *)

\* The events of the wallet of row i of features_list.
EventsOf(i) == Group(df, features_list[i].user)

\* Seconds between the first and the last event.
SpanOf(txs) ==
    SeqMax([k \in DOMAIN txs |-> txs[k].timestamp])
    - SeqMin([k \in DOMAIN txs |-> txs[k].timestamp])

\* The five action fields of a feature dict, added up.
FiveRatioSum(f) ==
    SumRat(<<f.deposit_ratio, f.borrow_ratio, f.repay_ratio, f.redeem_ratio,
             f.liquidation_count>>)

KnownActions == {"deposit", "borrow", "repay", "redeemunderlying", "liquidationcall"}

\* Among the labelled events, the share whose label is none of the five.
OtherShare(txs) ==
    Rat(Cardinality({k \in DOMAIN txs :
                        txs[k].action # Missing /\ txs[k].action \notin KnownActions}),
        Cardinality({k \in DOMAIN txs : txs[k].action # Missing}))

InUnit(x) == IsFinite(x) /\ ~Less(x, Zero) /\ ~Less(One, x)

\* 15 events whose 14 gaps average 20 seconds.
Rapid15(txs) == Len(txs) = 15 /\ SpanOf(txs) = 14 * 20

\* ys: the events of xs (same actions, assets, values) at a mean gap of at
\* least 60 seconds.
NormalTwin(xs, ys) ==
    /\ Len(xs) = Len(ys)
    /\ \A k \in DOMAIN xs :
          /\ xs[k].action = ys[k].action
          /\ xs[k].asset = ys[k].asset
          /\ xs[k].value = ys[k].value
    /\ SpanOf(ys) >= 60 * (Len(ys) - 1)

\* 1 when the high-frequency penalty applies to a feature dict.
HighFreq(f) == IF Less(f.tx_frequency_std, Num(60 * 60)) THEN One ELSE Zero

Unclipped(b) == Less(Num(300), b) /\ Less(b, Num(700))

\* floor(x + 1/2)
RoundNearest(x) == (2 * x[1] + x[2]) \div (2 * x[2])

ClipInt(k, lo, hi) == IF k < lo THEN lo ELSE IF k > hi THEN hi ELSE k

----------------------------------------------------------------------------
(* Properties *)

\* C1: once credit_score is assigned it has one entry per wallet of the
\* batch, each an integer in 0..1000, whatever the regressor predicted, and
\* the written score table carries exactly those values.
C1_ScoreInRange ==
    /\ credit_score # <<>> =>
          /\ Len(credit_score) = Len(GroupKeys(df))
          /\ \A i \in DOMAIN credit_score : credit_score[i] \in score_min..score_max
    /\ csv_written =>
          \A i \in DOMAIN csv : csv[i].credit_score = credit_score[i]

\* C1 witness: a written table after predictions below 0 and above 1000.
C1_Witness ==
    /\ csv_written
    /\ \E i \in DOMAIN pred : Less(pred[i], Zero)
    /\ \E i \in DOMAIN pred : Less(Num(1000), pred[i])

\* C2: every base_score is a finite number with 300 <= base_score <= 700.
C2_BaseInRange ==
    \A i \in DOMAIN base_score :
        /\ IsFinite(base_score[i])
        /\ ~Less(base_score[i], Num(300))
        /\ ~Less(Num(700), base_score[i])

\* C2 witness: a wallet on which every penalty applies at once (only
\* liquidations, high frequency, bot), whose rule sum is below 300.
C2_Witness ==
    \E i \in DOMAIN base_score :
        /\ wallet_features[i].liquidation_count = One
        /\ wallet_features[i].bot_likelihood = One
        /\ HighFreq(wallet_features[i]) = One
        /\ Less(RuleSum(wallet_features[i]), Num(300))
        /\ base_score[i] = Num(300)

\* C3: a wallet with exactly one event has days_active = 0,
\* tx_frequency_std = 0, value_std = 0 (the number) and bot_likelihood = 0.
C3_SingleEventFeatures ==
    \A i \in DOMAIN features_list :
        Len(EventsOf(i)) = 1 =>
            /\ features_list[i].days_active = Zero
            /\ features_list[i].tx_frequency_std = Zero
            /\ features_list[i].value_std = Zero
            /\ features_list[i].bot_likelihood = Zero

C5_RatiosSumToOne ==
    \A i \in DOMAIN features_list : FiveRatioSum(features_list[i]) = One

\* C5 amended: each of the five action fields lies in [0,1], and together
\* they add up to 1 minus the share, among the wallet's labelled events, of
\* labels that are none of the five.
C5_RatiosPartition ==
    \A i \in DOMAIN features_list :
        LET f == features_list[i]
        IN  /\ InUnit(f.deposit_ratio)
            /\ InUnit(f.borrow_ratio)
            /\ InUnit(f.repay_ratio)
            /\ InUnit(f.redeem_ratio)
            /\ InUnit(f.liquidation_count)
            /\ Add(FiveRatioSum(f), OtherShare(EventsOf(i))) = One

\* C5 witness: the features of a wallet that has events of the five labels
\* and events of another label.
C5_Witness ==
    \E i \in DOMAIN features_list :
        /\ Less(Zero, FiveRatioSum(features_list[i]))
        /\ Less(FiveRatioSum(features_list[i]), One)
        /\ \E k \in DOMAIN EventsOf(i) : EventsOf(i)[k].action \notin KnownActions

\* C6 as stated: a wallet with 15 events at gaps averaging 20 s has
\* bot_likelihood = 1 and a base_score exactly 100 below that of a wallet
\* with the same events at normal spacing.
C6_ExactBotPenalty ==
    base_score # <<>> =>
        \A i, j \in DOMAIN features_list :
            (Rapid15(EventsOf(i)) /\ NormalTwin(EventsOf(i), EventsOf(j))) =>
                /\ features_list[i].bot_likelihood = One
                /\ base_score[i] = Add(base_score[j], Num(bot_penalty))

\* C6 amended: such a wallet has bot_likelihood = 1 and its normally spaced
\* twin has bot_likelihood = 0; where neither base_score is clipped, the
\* twin's base_score exceeds it by 100, plus 2 per day of difference in
\* days_active, plus 150 times the difference of the high-frequency flags.
C6_BotPenalty ==
    base_score # <<>> =>
        \A i, j \in DOMAIN features_list :
            (Rapid15(EventsOf(i)) /\ NormalTwin(EventsOf(i), EventsOf(j))) =>
                LET x == features_list[i]
                    y == features_list[j]
                IN  /\ x.bot_likelihood = One
                    /\ y.bot_likelihood = Zero
                    /\ (Unclipped(base_score[i]) /\ Unclipped(base_score[j])) =>
                          base_score[j] =
                              SumRat(<<base_score[i],
                                       Num(-bot_penalty),
                                       Times(longevity_reward, y.days_active),
                                       Times(-longevity_reward, x.days_active),
                                       Times(high_frequency_penalty, HighFreq(y)),
                                       Times(-high_frequency_penalty, HighFreq(x))>>)

\* C6 witness: base scores exist for a rapid 15-event wallet and its normally
\* spaced twin, neither clipped.
C6_Witness ==
    /\ base_score # <<>>
    /\ \E i, j \in DOMAIN features_list :
          /\ Rapid15(EventsOf(i))
          /\ NormalTwin(EventsOf(i), EventsOf(j))
          /\ Unclipped(base_score[i])
          /\ Unclipped(base_score[j])

\* C7: no NaN or infinite value is ever handed to the scaler or to the
\* regressor, in generate_scores and in the attribution step alike.
C7_OnlyFiniteReach == AllFinite(scaler_X) /\ AllFinite(model_X)

\* C8: base scores for all wallets come before the scaler fit, the scaler
\* fit before the regressor fit, the regressor fit before prediction and
\* clipping, and all of these before any output; a failed run has written
\* neither table nor artifact; a written table has one row per wallet of the
\* batch, in order.
C8_OrderAndWholeTable ==
    /\ scaler = "fitted" =>
          Len(base_score) = Len(GroupKeys(df)) /\ Len(base_score) > 0
    /\ model = "fitted" => scaler = "fitted"
    /\ scores # <<>> => model = "fitted" /\ Len(scores) = Len(GroupKeys(df))
    /\ (csv_written \/ pkl # {}) => scores # <<>> /\ credit_score # <<>>
    /\ pkl # {} => csv_written
    /\ pc = "failed" => ~csv_written /\ pkl = {} /\ csv = <<>>
    /\ csv_written =>
          /\ Len(csv) = Len(GroupKeys(df))
          /\ \A i \in DOMAIN csv : csv[i].user = GroupKeys(df)[i]

\* C8 witness: the table of a two-wallet batch is written.
C8_Witness == pc = "written" /\ Len(csv) = 2

\* C9: every assigned credit_score is clip(round(p), 0, 1000) for the
\* prediction p of its row, round being rounding to the nearest integer.
C9_RoundedScore ==
    \A i \in DOMAIN credit_score :
        credit_score[i] = ClipInt(RoundNearest(pred[i]), score_min, score_max)

\* C10: every base_score is the clipped rule sum in which the liquidation
\* penalty is charged once per liquidation event of the wallet.
C10_PerEventLiquidation ==
    \A i \in DOMAIN base_score :
        base_score[i] =
            Clip(RuleSum([wallet_features[i] EXCEPT
                            !.liquidation_count =
                                Num(Cardinality({k \in DOMAIN EventsOf(i) :
                                        EventsOf(i)[k].action = "liquidationcall"}))]),
                 Num(300), Num(700))

====
